---- MODULE Spec2Model ----
(***************************************************************************)
(* Operational transformation of plain text (src/lib.rs): the TextOperation *)
(* value, its builder (retain / delete / insert), and the operators apply,  *)
(* invert, compose and transform.                                           *)
(*                                                                          *)
(* A string is a sequence of characters, a character is its Unicode scalar  *)
(* value, and lengths are counted in characters, as s.chars().count()       *)
(* does.  No operator looks at what a character is, so documents are        *)
(* strings of pairwise distinct characters: any character lost, repeated    *)
(* or moved shows in the result.                                            *)
(***************************************************************************)
EXTENDS Integers, Sequences, FiniteSets, TLC

\* ------------------------------------------------------------------ bounds

\* Builder calls made in one run, over both edits together.
MaxAppends == 4
\* Largest count a builder call of the document-sized runs is given.
MaxCount == 2
\* Longest document string handed to apply and invert.
MaxStr == 3

\* Width given to the u32 counts stored in Operation::Delete and
\* Operation::Retain.  The code depends on the width only through the
\* wrap-around of `+=`, so the counts are modelled at a reduced width, all u32
\* arithmetic being taken modulo 2^U32Bits.  The document-sized runs stay
\* below it: MaxAppends * MaxCount < 2^U32Bits.
U32Bits == 5

\* ------------------------------------------------------------------ widths

U32Mod == 2 ^ U32Bits
U32Max == U32Mod - 1

\* `x as u32`
AsU32(x) == x % U32Mod

\* ------------------------------------------------------------ Operation

\* enum Operation { Delete(u32), Retain(u32), Insert(String) }
Delete(n) == [t |-> "Delete", n |-> n, s |-> <<>>]
Retain(n) == [t |-> "Retain", n |-> n, s |-> <<>>]
Insert(s) == [t |-> "Insert", n |-> 0, s |-> s]

\* Option<Operation>::None, and the end of an iterator
None == [t |-> "None", n |-> 0, s |-> <<>>]

\* s.chars().count()
CharCount(s) == Len(s)

\* chars.take(n).collect(): the first n characters, fewer when s is shorter
Take(s, n) == SubSeq(s, 1, IF n < Len(s) THEN n ELSE Len(s))

\* s.chars().skip(n).collect(): what follows the first n characters
Skip(s, n) == SubSeq(s, (IF n < Len(s) THEN n ELSE Len(s)) + 1, Len(s))

\* ---------------------------------------------------------- TextOperation

\* impl Default for TextOperation
Default == [ops |-> <<>>, base_len |-> 0, target_len |-> 0]

\* self.ops.last()
LastOp(o) == IF Len(o.ops) = 0 THEN None ELSE o.ops[Len(o.ops)]

\* the element before the last
PreLastOp(o) == IF Len(o.ops) < 2 THEN None ELSE o.ops[Len(o.ops) - 1]

\* `*i_last += i` on a u32: true when the sum does not fit.  A build with
\* overflow checks panics there; a build without them stores the wrapped sum.
AddOverflows(k, i) == k + i > U32Max

\* pub fn delete(&mut self, i: u32); base_len is a usize, twice as wide as
\* the counts, and cannot wrap within the runs explored here.
delete(o, i) ==
    IF i = 0 THEN o
    ELSE LET base == o.base_len + i
         IN IF LastOp(o).t = "Delete"
            THEN [o EXCEPT !.base_len = base,
                           !.ops[Len(o.ops)] = Delete(AsU32(LastOp(o).n + i))]
            ELSE [o EXCEPT !.base_len = base,
                           !.ops = Append(o.ops, Delete(i))]

\* the `*i_last += i` of delete is reached with a sum that does not fit
delete_overflows(o, i) ==
    i # 0 /\ LastOp(o).t = "Delete" /\ AddOverflows(LastOp(o).n, i)

\* insert as it would be without the arm that moves the new Insert in front
\* of a trailing Delete
insert_NoReorder(o, s) ==
    IF s = <<>> THEN o
    ELSE LET target == o.target_len + CharCount(s)
             n == Len(o.ops)
         IN CASE LastOp(o).t = "Insert" ->
                   [o EXCEPT !.target_len = target,
                             !.ops[n] = Insert(LastOp(o).s \o s)]
              [] LastOp(o).t = "Delete" /\ PreLastOp(o).t = "Insert" ->
                   [o EXCEPT !.target_len = target,
                             !.ops[n - 1] = Insert(PreLastOp(o).s \o s)]
              [] OTHER ->
                   [o EXCEPT !.target_len = target,
                             !.ops = Append(o.ops, Insert(s))]

\* pub fn insert(&mut self, s: String)
insert(o, s) ==
    IF s = <<>> THEN o
    ELSE LET target == o.target_len + CharCount(s)
             n == Len(o.ops)
         IN CASE LastOp(o).t = "Insert" ->
                   [o EXCEPT !.target_len = target,
                             !.ops[n] = Insert(LastOp(o).s \o s)]
              [] LastOp(o).t = "Delete" /\ PreLastOp(o).t = "Insert" ->
                   [o EXCEPT !.target_len = target,
                             !.ops[n - 1] = Insert(PreLastOp(o).s \o s)]
              [] LastOp(o).t = "Delete" /\ PreLastOp(o).t # "Insert" ->
                   [o EXCEPT !.target_len = target,
                             !.ops = Append([o.ops EXCEPT ![n] = Insert(s)],
                                            LastOp(o))]
              [] OTHER ->
                   [o EXCEPT !.target_len = target,
                             !.ops = Append(o.ops, Insert(s))]

\* pub fn retain(&mut self, i: u32)
retain(o, i) ==
    IF i = 0 THEN o
    ELSE LET base == o.base_len + i
             target == o.target_len + i
         IN IF LastOp(o).t = "Retain"
            THEN [o EXCEPT !.base_len = base, !.target_len = target,
                           !.ops[Len(o.ops)] = Retain(AsU32(LastOp(o).n + i))]
            ELSE [o EXCEPT !.base_len = base, !.target_len = target,
                           !.ops = Append(o.ops, Retain(i))]

\* the `*i_last += i` of retain is reached with a sum that does not fit
retain_overflows(o, i) ==
    i # 0 /\ LastOp(o).t = "Retain" /\ AddOverflows(LastOp(o).n, i)

\* --------------------------------------------------------- apply, invert

\* the `for op in self.ops.iter()` loop of apply, from the k-th operation on:
\* chars is what the iterator over s still holds, new_s the output so far
RECURSIVE apply_loop(_, _, _, _)
apply_loop(ops, k, chars, new_s) ==
    IF k > Len(ops) THEN new_s
    ELSE LET op == ops[k]
         IN CASE op.t = "Retain" ->
                   apply_loop(ops, k + 1, Skip(chars, op.n), new_s \o Take(chars, op.n))
              [] op.t = "Delete" ->
                   apply_loop(ops, k + 1, Skip(chars, op.n), new_s)
              [] OTHER ->
                   apply_loop(ops, k + 1, chars, new_s \o op.s)

\* pub fn apply(&self, s: &str) -> String; assert_eq! panics on a length mismatch
apply(o, s) ==
    IF CharCount(s) # o.base_len
    THEN [outcome |-> "assert", str |-> <<>>]
    ELSE [outcome |-> "ok", str |-> apply_loop(o.ops, 1, s, <<>>)]

\* the loop of invert as it would be if its Retain arm left the cursor over s
\* where it is
RECURSIVE invert_loop_RetainKeepsCursor(_, _, _, _)
invert_loop_RetainKeepsCursor(ops, k, chars, r) ==
    IF k > Len(ops) THEN r
    ELSE LET op == ops[k]
         IN CASE op.t = "Retain" ->
                   invert_loop_RetainKeepsCursor(ops, k + 1, chars,
                       [inverse |-> retain(r.inverse, op.n),
                        overflow |-> r.overflow \/ retain_overflows(r.inverse, op.n)])
              [] op.t = "Insert" ->
                   invert_loop_RetainKeepsCursor(ops, k + 1, chars,
                       [inverse |-> delete(r.inverse, AsU32(CharCount(op.s))),
                        overflow |-> r.overflow
                            \/ delete_overflows(r.inverse, AsU32(CharCount(op.s)))])
              [] OTHER ->
                   invert_loop_RetainKeepsCursor(ops, k + 1, Skip(chars, op.n),
                       [inverse |-> insert(r.inverse, Take(chars, op.n)),
                        overflow |-> r.overflow])

\* the `for op in self.ops.iter()` loop of invert, from the k-th operation on;
\* r.inverse is the edit built so far, r.overflow whether one of its appends
\* met a u32 sum that does not fit
RECURSIVE invert_loop(_, _, _, _)
invert_loop(ops, k, chars, r) ==
    IF k > Len(ops) THEN r
    ELSE LET op == ops[k]
         IN CASE op.t = "Retain" ->
                   invert_loop(ops, k + 1, Skip(chars, op.n),
                       [inverse |-> retain(r.inverse, op.n),
                        overflow |-> r.overflow \/ retain_overflows(r.inverse, op.n)])
              [] op.t = "Insert" ->
                   invert_loop(ops, k + 1, chars,
                       [inverse |-> delete(r.inverse, AsU32(CharCount(op.s))),
                        overflow |-> r.overflow
                            \/ delete_overflows(r.inverse, AsU32(CharCount(op.s)))])
              [] OTHER ->
                   invert_loop(ops, k + 1, Skip(chars, op.n),
                       [inverse |-> insert(r.inverse, Take(chars, op.n)),
                        overflow |-> r.overflow])

\* pub fn invert(&self, s: &str) -> Self; the length of s is not examined
invert(o, s) ==
    LET r == invert_loop(o.ops, 1, s, [inverse |-> Default, overflow |-> FALSE])
    IN [outcome |-> IF r.overflow THEN "overflow" ELSE "ok", edit |-> r.inverse]

\* pub fn is_noop(&self) -> bool
is_noop(o) == Len(o.ops) = 0 \/ (Len(o.ops) = 1 /\ o.ops[1].t = "Retain")

\* ---------------------------------------------------- the two-cursor walks

\* ops.next() of an iterator that has yielded n items
IterNext(ops, n) == IF n < Len(ops) THEN ops[n + 1] ELSE None

\* maybe_op1 = ops1.next()
Advance1(a, w) ==
    [w EXCEPT !.op1 = IterNext(a.ops, w.n1),
              !.n1 = IF w.n1 < Len(a.ops) THEN w.n1 + 1 ELSE w.n1]
\* maybe_op2 = ops2.next()
Advance2(b, w) ==
    [w EXCEPT !.op2 = IterNext(b.ops, w.n2),
              !.n2 = IF w.n2 < Len(b.ops) THEN w.n2 + 1 ELSE w.n2]
\* maybe_op1 = Some(op)
Residual1(w, op) == [w EXCEPT !.op1 = op]
\* maybe_op2 = Some(op)
Residual2(w, op) == [w EXCEPT !.op2 = op]

\* the cursor moves as they would be if the longer side kept its whole
\* operation instead of the difference
Shrink_NoResidual(a, b, w, i, j, rest1, rest2) ==
    CASE i < j -> Advance1(a, w)
      [] i = j -> Advance2(b, Advance1(a, w))
      [] OTHER -> Advance2(b, w)

\* the cursor moves as they would be if equal counts advanced the left side only
Shrink_EqualAdvancesLeft(a, b, w, i, j, rest1, rest2) ==
    CASE i < j -> Advance1(a, Residual2(w, rest2))
      [] i = j -> Advance1(a, w)
      [] OTHER -> Advance2(b, Residual1(w, rest1))

\* the cursor moves as they would be if the shorter left side stayed where it
\* is while the right side kept the difference
Shrink_LessKeepsLeft(a, b, w, i, j, rest1, rest2) ==
    CASE i < j -> Residual2(w, rest2)
      [] i = j -> Advance2(b, Advance1(a, w))
      [] OTHER -> Advance2(b, Residual1(w, rest1))

\* the cursor moves of the three-way `match i.cmp(j)` every pairing ends with:
\* the side with the smaller count advances, the other keeps the difference
Shrink(a, b, w, i, j, rest1, rest2) ==
    CASE i < j -> Advance1(a, Residual2(w, rest2))
      [] i = j -> Advance2(b, Advance1(a, w))
      [] OTHER -> Advance2(b, Residual1(w, rest1))

Min(i, j) == IF i < j THEN i ELSE j

\* ---------------------------------------------------------------- compose

\* new_operations.retain(n) / .delete(n) / .insert(s) inside compose
ComposeRetain(w, n) ==
    [w EXCEPT !.new_operations = retain(@, n),
              !.overflow = @ \/ retain_overflows(w.new_operations, n)]
ComposeDelete(w, n) ==
    [w EXCEPT !.new_operations = delete(@, n),
              !.overflow = @ \/ delete_overflows(w.new_operations, n)]
ComposeInsert(w, s) ==
    [w EXCEPT !.new_operations = insert(@, s)]

\* the state of compose when its loop is entered
compose_init(a, b) ==
    [op1 |-> IterNext(a.ops, 0), n1 |-> IF Len(a.ops) > 0 THEN 1 ELSE 0,
     op2 |-> IterNext(b.ops, 0), n2 |-> IF Len(b.ops) > 0 THEN 1 ELSE 0,
     new_operations |-> Default, overflow |-> FALSE, pc |-> "loop"]

\* one iteration of the loop of compose: the arms of the match, in its order
compose_step(a, b, w) ==
    LET op1 == w.op1
        op2 == w.op2
        k == AsU32(CharCount(op1.s))
    IN IF op1.t = "None" /\ op2.t = "None" THEN [w EXCEPT !.pc = "done"]
       ELSE IF op1.t = "Delete" THEN Advance1(a, ComposeDelete(w, op1.n))
       ELSE IF op2.t = "Insert" THEN Advance2(b, ComposeInsert(w, op2.s))
       ELSE IF op1.t = "None" THEN [w EXCEPT !.pc = "first_too_short"]
       ELSE IF op2.t = "None" THEN [w EXCEPT !.pc = "second_too_short"]
       ELSE IF op1.t = "Retain" /\ op2.t = "Retain"
            THEN Shrink(a, b, ComposeRetain(w, Min(op1.n, op2.n)), op1.n, op2.n,
                        Retain(op1.n - op2.n), Retain(op2.n - op1.n))
       ELSE IF op1.t = "Insert" /\ op2.t = "Delete"
            THEN Shrink(a, b, w, k, op2.n,
                        Insert(Skip(op1.s, op2.n)), Delete(op2.n - k))
       ELSE IF op1.t = "Insert" /\ op2.t = "Retain"
            THEN Shrink(a, b,
                        ComposeInsert(w, IF k > op2.n THEN Take(op1.s, op2.n) ELSE op1.s),
                        k, op2.n,
                        Insert(Skip(op1.s, op2.n)), Retain(op2.n - k))
       ELSE \* Retain, Delete
            Shrink(a, b, ComposeDelete(w, Min(op1.n, op2.n)), op1.n, op2.n,
                   Retain(op1.n - op2.n), Delete(op2.n - op1.n))

\* the loop of compose, run from state w until it breaks or panics
RECURSIVE compose_loop(_, _, _)
compose_loop(a, b, w) ==
    IF w.pc # "loop" THEN w ELSE compose_loop(a, b, compose_step(a, b, w))

\* what a finished walk hands back: the panic it ended in, or its edits
WalkOutcome(w) ==
    IF w.pc # "done" THEN w.pc ELSE IF w.overflow THEN "overflow" ELSE "ok"

\* pub fn compose(&self, other: &Self) -> Self
compose(a, b) ==
    IF a.target_len # b.base_len
    THEN [outcome |-> "assert", edit |-> Default]
    ELSE LET w == compose_loop(a, b, compose_init(a, b))
         IN [outcome |-> WalkOutcome(w), edit |-> w.new_operations]

\* -------------------------------------------------------------- transform

\* the emission of transform as it would be if the peer's edit were not made to
\* retain the text the other side inserts
TransformEmit_NoPeerRetain(w, pa, pb) ==
    LET call(o, p) == CASE p.t = "Retain" -> retain(o, p.n)
                        [] p.t = "Delete" -> delete(o, p.n)
                        [] p.t = "Insert" -> insert(o, p.s)
                        [] OTHER -> o
    IN [w EXCEPT !.a_prime = IF pb.t = "Insert" THEN @ ELSE call(@, pa),
                 !.b_prime = IF pa.t = "Insert" THEN @ ELSE call(@, pb)]

\* a_prime.insert(s); b_prime.retain(count) and the like inside transform
TransformEmit(w, pa, pb) ==
    LET call(o, p) == CASE p.t = "Retain" -> retain(o, p.n)
                        [] p.t = "Delete" -> delete(o, p.n)
                        [] p.t = "Insert" -> insert(o, p.s)
                        [] OTHER -> o
        ovf(o, p) == CASE p.t = "Retain" -> retain_overflows(o, p.n)
                       [] p.t = "Delete" -> delete_overflows(o, p.n)
                       [] OTHER -> FALSE
    IN [w EXCEPT !.a_prime = call(@, pa), !.b_prime = call(@, pb),
                 !.overflow = @ \/ ovf(w.a_prime, pa) \/ ovf(w.b_prime, pb)]

\* the state of transform when its loop is entered
transform_init(a, b) ==
    [op1 |-> IterNext(a.ops, 0), n1 |-> IF Len(a.ops) > 0 THEN 1 ELSE 0,
     op2 |-> IterNext(b.ops, 0), n2 |-> IF Len(b.ops) > 0 THEN 1 ELSE 0,
     a_prime |-> Default, b_prime |-> Default, overflow |-> FALSE, pc |-> "loop"]

\* the left Insert arm as it would be if it gave way to a right Insert
LeftInsertArm_YieldsToRight(op1, op2) == op1.t = "Insert" /\ op2.t # "Insert"

\* the arm `(Some(Operation::Insert(s)), _)` of transform: it comes before the
\* arm of the right Insert and takes the step whatever the right head is
LeftInsertArm(op1, op2) == op1.t = "Insert"

\* one iteration of the loop of transform: the arms of the match, in its order
transform_step(a, b, w) ==
    LET op1 == w.op1
        op2 == w.op2
        min == Min(op1.n, op2.n)
    IN IF op1.t = "None" /\ op2.t = "None" THEN [w EXCEPT !.pc = "done"]
       ELSE IF LeftInsertArm(op1, op2)
            THEN Advance1(a, TransformEmit(w, Insert(op1.s),
                                           Retain(AsU32(CharCount(op1.s)))))
       ELSE IF op2.t = "Insert"
            THEN Advance2(b, TransformEmit(w, Retain(AsU32(CharCount(op2.s))),
                                           Insert(op2.s)))
       ELSE IF op1.t = "None" THEN [w EXCEPT !.pc = "first_too_short"]
       ELSE IF op2.t = "None" THEN [w EXCEPT !.pc = "second_too_short"]
       ELSE IF op1.t = "Retain" /\ op2.t = "Retain"
            THEN TransformEmit(
                     Shrink(a, b, w, op1.n, op2.n,
                            Retain(op1.n - op2.n), Retain(op2.n - op1.n)),
                     Retain(min), Retain(min))
       ELSE IF op1.t = "Delete" /\ op2.t = "Delete"
            THEN Shrink(a, b, w, op1.n, op2.n,
                        Delete(op1.n - op2.n), Delete(op2.n - op1.n))
       ELSE IF op1.t = "Delete" /\ op2.t = "Retain"
            THEN TransformEmit(
                     Shrink(a, b, w, op1.n, op2.n,
                            Delete(op1.n - op2.n), Retain(op2.n - op1.n)),
                     Delete(min), None)
       ELSE \* Retain, Delete
            TransformEmit(
                Shrink(a, b, w, op1.n, op2.n,
                       Retain(op1.n - op2.n), Delete(op2.n - op1.n)),
                None, Delete(min))

\* the loop of transform, run from state w until it breaks or panics
RECURSIVE transform_loop(_, _, _)
transform_loop(a, b, w) ==
    IF w.pc # "loop" THEN w ELSE transform_loop(a, b, transform_step(a, b, w))

\* pub fn transform(&self, other: &Self) -> (Self, Self)
transform(a, b) ==
    IF a.base_len # b.base_len
    THEN [outcome |-> "assert", a_prime |-> Default, b_prime |-> Default]
    ELSE LET w == transform_loop(a, b, transform_init(a, b))
         IN [outcome |-> WalkOutcome(w), a_prime |-> w.a_prime, b_prime |-> w.b_prime]

\* ---------------------------------------------------------- the program

\* a, b:    the two edits a caller builds and hands to the operators
\* appends: builder calls made so far
\* out:     the last call: which one, how it ended and what it returned
\* walk:    the loop of compose or transform as it runs, one iteration a step
VARIABLES a, b, appends, out, walk

vars == <<a, b, appends, out, walk>>

\* no loop has been entered
NoWalk == [call |-> "none", w |-> [pc |-> "idle"]]

\* no operator has been called since the last builder call
NoCall ==
    [call |-> "none", outcome |-> "none", s |-> <<>>, str |-> <<>>,
     e1 |-> Default, e2 |-> Default]

\* A run builds its edits and then makes one operator call: the operators
\* borrow their arguments and change nothing, so a second call would return
\* what it returns as the first.  A builder call that panics ends the run too.
Running == out = NoCall /\ walk.call = "none"

\* the document of n characters, all distinct and none of them in an insert
Doc(n) == [i \in 1..n |-> 1000 + i]
\* the documents handed to apply and invert
Strs == {Doc(n) : n \in 0..MaxStr}

\* the arguments the builder is called with in document-sized runs
Counts == 1..MaxCount
\* ("x", "y" and "xy")
Texts == {<<120>>, <<121>>, <<120, 121>>}
\* and in the runs that exercise the width of the stored counts
CountsU32 == {0, 1, U32Max - 1, U32Max}
TextsU32 == {<<>>, <<120>>}

\* how the build treats a u32 sum that does not fit
Builds == {"overflow-checks", "wrapping"}

Init == a = Default /\ b = Default /\ appends = 0 /\ out = NoCall /\ walk = NoWalk

\* One builder call on edit `who`: `after` is the edit the call leaves when it
\* returns, `partial` the edit as it stands when `*i_last += i` panics (the
\* lengths are added before the sum is attempted), `overflows` whether the sum
\* fails to fit.
Append_(who, name, after, partial, overflows) ==
    /\ Running
    /\ appends < MaxAppends
    /\ appends' = appends + 1
    /\ walk' = walk
    /\ \E build \in Builds :
          LET panics == overflows /\ build = "overflow-checks"
              edit == IF panics THEN partial ELSE after
          IN /\ a' = IF who = "a" THEN edit ELSE a
             /\ b' = IF who = "b" THEN edit ELSE b
             /\ out' = IF panics
                       THEN [NoCall EXCEPT !.call = name, !.outcome = "overflow_panic"]
                       ELSE NoCall

Edit(who) == IF who = "a" THEN a ELSE b

\* o.retain(n)
CallRetain(Who, Ns) ==
    \E who \in Who, n \in Ns :
        LET o == Edit(who)
        IN Append_(who, "retain", retain(o, n),
                   [o EXCEPT !.base_len = @ + n, !.target_len = @ + n],
                   retain_overflows(o, n))

\* o.delete(n)
CallDelete(Who, Ns) ==
    \E who \in Who, n \in Ns :
        LET o == Edit(who)
        IN Append_(who, "delete", delete(o, n),
                   [o EXCEPT !.base_len = @ + n],
                   delete_overflows(o, n))

\* o.insert(s)
CallInsert(Who, Ss) ==
    \E who \in Who, s \in Ss :
        LET o == Edit(who)
        IN Append_(who, "insert", insert(o, s), o, FALSE)

\* a.apply(s)
CallApply ==
    /\ Running
    /\ \E s \in Strs :
          LET r == apply(a, s)
          IN out' = [NoCall EXCEPT !.call = "apply", !.outcome = r.outcome,
                                   !.s = s, !.str = r.str]
    /\ UNCHANGED <<a, b, appends, walk>>

\* a.invert(s)
CallInvert ==
    /\ Running
    /\ \E s \in Strs :
          LET r == invert(a, s)
          IN out' = [NoCall EXCEPT !.call = "invert", !.outcome = r.outcome,
                                   !.s = s, !.e1 = r.edit]
    /\ UNCHANGED <<a, b, appends, walk>>

\* a.compose(&b)
CallCompose ==
    /\ Running
    /\ LET r == compose(a, b)
       IN out' = [NoCall EXCEPT !.call = "compose", !.outcome = r.outcome,
                                !.e1 = r.edit]
    /\ UNCHANGED <<a, b, appends, walk>>

\* a.transform(&b)
CallTransform ==
    /\ Running
    /\ LET r == transform(a, b)
       IN out' = [NoCall EXCEPT !.call = "transform", !.outcome = r.outcome,
                                !.e1 = r.a_prime, !.e2 = r.b_prime]
    /\ UNCHANGED <<a, b, appends, walk>>

\* Document-sized runs: two edits built with small counts, and every operator.
Next ==
    \/ CallRetain({"a", "b"}, Counts)
    \/ CallDelete({"a", "b"}, Counts)
    \/ CallInsert({"a", "b"}, Texts)
    \/ CallApply
    \/ CallInvert
    \/ CallCompose
    \/ CallTransform

Spec == Init /\ [][Next]_vars

\* Runs of the builder alone, on one edit, with counts up to the largest u32.
NextU32 ==
    \/ CallRetain({"a"}, CountsU32)
    \/ CallDelete({"a"}, CountsU32)
    \/ CallInsert({"a"}, TextsU32)

SpecU32 == Init /\ [][NextU32]_vars

\* ------------------------------------------------------------ properties

\* characters of the input the first k operations consume
RECURSIVE BaseOf(_, _)
BaseOf(ops, k) ==
    IF k = 0 THEN 0
    ELSE BaseOf(ops, k - 1) + (IF ops[k].t \in {"Retain", "Delete"} THEN ops[k].n ELSE 0)

\* characters of the output the first k operations produce
RECURSIVE TargetOf(_, _)
TargetOf(ops, k) ==
    IF k = 0 THEN 0
    ELSE TargetOf(ops, k - 1)
         + (CASE ops[k].t = "Retain" -> ops[k].n
              [] ops[k].t = "Insert" -> CharCount(ops[k].s)
              [] OTHER -> 0)

\* the stored lengths are the sums over the stored operations
LengthsAgree(o) ==
    /\ o.base_len = BaseOf(o.ops, Len(o.ops))
    /\ o.target_len = TargetOf(o.ops, Len(o.ops))

\* no empty operation, no two neighbours of one variant, no Delete right
\* before an Insert
Canonical(o) ==
    /\ \A k \in 1..Len(o.ops) :
          /\ o.ops[k].t \in {"Retain", "Delete"} => o.ops[k].n >= 1
          /\ o.ops[k].t = "Insert" => o.ops[k].s # <<>>
    /\ \A k \in 1..(Len(o.ops) - 1) :
          /\ o.ops[k].t # o.ops[k + 1].t
          /\ ~(o.ops[k].t = "Delete" /\ o.ops[k + 1].t = "Insert")

\* the Inserts of o that sit at input position p
InsertsAt(o, p) ==
    {k \in 1..Len(o.ops) : o.ops[k].t = "Insert" /\ BaseOf(o.ops, k - 1) = p}

\* the text o inserts at input position p, empty when it inserts none
TextAt(o, p) ==
    IF InsertsAt(o, p) = {} THEN <<>>
    ELSE o.ops[CHOOSE k \in InsertsAt(o, p) : TRUE].s

\* a and b both insert at input position p
BothInsertAt(p) == InsertsAt(a, p) # {} /\ InsertsAt(b, p) # {}

\* the operator returned, rather than panicking
Returned(r) == r.outcome = "ok"

\* the call just made and the precondition it was made under
Composed == out.call = "compose" /\ a.target_len = b.base_len
Transformed == out.call = "transform" /\ a.base_len = b.base_len

\* C1: convergence.  After (a', b') = a.transform(b) on edits of equal
\* base_len, a.compose(b') and b.compose(a') are both defined, are the same
\* edit, and take the document to the same string.
C1_Convergence ==
    Transformed =>
        LET ab == compose(a, out.e2)
            ba == compose(b, out.e1)
            s == Doc(a.base_len)
        IN /\ Returned(out)
           /\ a.target_len = out.e2.base_len
           /\ b.target_len = out.e1.base_len
           /\ Returned(ab) /\ Returned(ba)
           /\ ab.edit = ba.edit
           /\ Returned(apply(ab.edit, s))
           /\ apply(ab.edit, s) = apply(ba.edit, s)

\* both edits insert and delete, and the transformed edits differ from them
C1_Witness ==
    /\ Transformed /\ Returned(out)
    /\ \E k \in 1..Len(a.ops) : a.ops[k].t = "Delete"
    /\ \E k \in 1..Len(b.ops) : b.ops[k].t = "Insert"
    /\ out.e1 # a /\ out.e2 # b
    /\ compose(a, out.e2).edit = compose(b, out.e1).edit

\* C2: compose law.  With a.target_len = b.base_len, a.compose(b) takes the
\* document where a then b take it, from a.base_len to b.target_len characters.
C2_ComposeLaw ==
    Composed =>
        LET s == Doc(a.base_len)
            after_a == apply(a, s)
            after_b == apply(b, after_a.str)
        IN /\ Returned(out)
           /\ out.e1.base_len = a.base_len
           /\ out.e1.target_len = b.target_len
           /\ Returned(after_a) /\ Returned(after_b)
           /\ apply(out.e1, s) = after_b

\* a inserts, b deletes and retains: the composed edit is neither of them
C2_Witness ==
    /\ Composed /\ Returned(out)
    /\ \E k \in 1..Len(a.ops) : a.ops[k].t = "Insert"
    /\ \E k \in 1..Len(b.ops) : b.ops[k].t = "Delete"
    /\ \E k \in 1..Len(b.ops) : b.ops[k].t = "Retain"
    /\ apply(out.e1, Doc(a.base_len)).str # Doc(a.base_len)

\* C3: invert law.  For s of a.base_len characters, p = a.invert(s) runs from
\* a.target_len to a.base_len characters and takes a.apply(s) back to s.
C3_InvertLaw ==
    (out.call = "invert" /\ CharCount(out.s) = a.base_len) =>
        LET p == out.e1
            after == apply(a, out.s)
        IN /\ Returned(out)
           /\ p.base_len = a.target_len
           /\ p.target_len = a.base_len
           /\ Returned(after)
           /\ apply(p, after.str) = [outcome |-> "ok", str |-> out.s]

\* the inverted edit deletes after retaining, so the inverse re-inserts
\* characters from the middle of the document
C3_Witness ==
    /\ out.call = "invert" /\ CharCount(out.s) = a.base_len
    /\ Returned(out)
    /\ \E k \in 2..Len(a.ops) : a.ops[k].t = "Delete" /\ a.ops[1].t = "Retain"
    /\ \E k \in 1..Len(a.ops) : a.ops[k].t = "Insert"
    /\ \E k \in 1..Len(out.e1.ops) : out.e1.ops[k].t = "Insert"

\* C4: canonical form.  Whatever retain, delete and insert calls built it, an
\* edit stores no Retain(0), Delete(0) or Insert(""), no two neighbours of one
\* variant, and no Delete right before an Insert.
C4_Canonical == Running => Canonical(a)

\* C4, for the edits of document-sized runs and what the operators return
\* for them
CanonicalWithinWidth ==
    /\ Canonical(a) /\ Canonical(b)
    /\ Canonical(out.e1) /\ Canonical(out.e2)

\* C5: length consistency.  Whatever u32 counts the builder was called with,
\* base_len is the sum of the stored Retain and Delete counts and target_len
\* the sum of the stored Retain counts and Insert lengths.
C5_Lengths == Running => LengthsAgree(a)

\* C5, for the edits of document-sized runs and what the operators return
\* for them
LengthsWithinWidth ==
    /\ LengthsAgree(a) /\ LengthsAgree(b)
    /\ LengthsAgree(out.e1) /\ LengthsAgree(out.e2)

\* C6: a call that breaks its length precondition is fatal and returns
\* nothing: apply and invert on a string of another length than base_len,
\* compose with a.target_len # b.base_len, transform with a.base_len # b.base_len.
C6_Fatal ==
    /\ (out.call \in {"apply", "invert"} /\ CharCount(out.s) # a.base_len)
          => out.outcome = "assert"
    /\ (out.call = "compose" /\ a.target_len # b.base_len)
          => out.outcome = "assert"
    /\ (out.call = "transform" /\ a.base_len # b.base_len)
          => out.outcome = "assert"

\* C6, for the three operators that assert their precondition
FatalWhereAsserted ==
    /\ (out.call = "apply" /\ CharCount(out.s) # a.base_len)
          => out.outcome = "assert"
    /\ (out.call = "compose" /\ a.target_len # b.base_len)
          => out.outcome = "assert"
    /\ (out.call = "transform" /\ a.base_len # b.base_len)
          => out.outcome = "assert"

\* p is how s begins
IsPrefix(p, s) == Len(p) <= Len(s) /\ SubSeq(s, 1, Len(p)) = p

\* C7: tie-break.  Where a and b both insert at input position p, a' inserts
\* a's text at the place of b's output just before b's text and retains b's
\* text right after it, b' retains a's text and right after it inserts b's
\* (with what b inserts next, when a deletes all that lies between), and what
\* the merged edit inserts at p begins with a's text followed by b's.
C7_TieBreak ==
    (Transformed /\ Returned(out)) =>
        \A p \in 0..a.base_len :
            BothInsertAt(p) =>
                LET ka == CHOOSE k \in InsertsAt(a, p) : TRUE
                    kb == CHOOSE k \in InsertsAt(b, p) : TRUE
                    sa == a.ops[ka].s
                    sb == b.ops[kb].s
                    ap == out.e1
                    bp == out.e2
                    ia == InsertsAt(ap, TargetOf(b.ops, kb - 1))
                    ib == InsertsAt(bp, TargetOf(a.ops, ka))
                IN /\ \E k \in ia :
                         /\ ap.ops[k].s = sa
                         /\ k < Len(ap.ops)
                         /\ ap.ops[k + 1].t = "Retain"
                         /\ ap.ops[k + 1].n >= CharCount(sb)
                   /\ \E k \in ib :
                         /\ IsPrefix(sb, bp.ops[k].s)
                         /\ k > 1
                         /\ bp.ops[k - 1].t = "Retain"
                         /\ bp.ops[k - 1].n >= CharCount(sa)
                   /\ IsPrefix(sa \o sb, TextAt(compose(a, bp).edit, p))

\* both insert, different texts, in the middle of the document
C7_Witness ==
    /\ Transformed /\ Returned(out)
    /\ \E p \in 1..a.base_len :
          /\ BothInsertAt(p)
          /\ TextAt(a, p) # TextAt(b, p)
          /\ TextAt(compose(a, out.e2).edit, p) = TextAt(a, p) \o TextAt(b, p)

\* the edit client A ends with: its own a, then the peer's edit as
\* a.transform(b) returns it
MergedAtA == compose(a, transform(a, b).b_prime)
\* the edit client B ends with: its own b, then the peer's edit as
\* b.transform(a) returns it
MergedAtB == compose(b, transform(b, a).b_prime)

\* C8 as stated: each client transforming with its own edit on the left, the
\* two end with the same edit, whatever a and b insert.
C8_TwoWayMerge ==
    Transformed => (Returned(MergedAtA) /\ Returned(MergedAtB)
                    /\ MergedAtA.edit = MergedAtB.edit)

\* the texts a and b insert at p read the same in either order
TextsCommuteAt(p) == TextAt(a, p) \o TextAt(b, p) = TextAt(b, p) \o TextAt(a, p)

\* C8 as amended: the two clients end with the same edit exactly when, at
\* every input position, the texts a and b insert there read the same in
\* either order (as when only one of them inserts there).
C8_TwoWayMergeAmended ==
    Transformed =>
        /\ Returned(MergedAtA) /\ Returned(MergedAtB)
        /\ (MergedAtA.edit = MergedAtB.edit)
              <=> (\A p \in 0..a.base_len : TextsCommuteAt(p))

\* a and b insert at different places and delete: the clients agree
C8_Witness ==
    /\ Transformed /\ Returned(out)
    /\ \A p \in 0..a.base_len : ~BothInsertAt(p)
    /\ \E p \in 0..a.base_len : InsertsAt(a, p) # {}
    /\ \E p \in 0..a.base_len : InsertsAt(b, p) # {}
    /\ MergedAtA.edit = MergedAtB.edit
    /\ out.e1 = transform(b, a).b_prime

\* the arguments C9 appends: every text and count of either kind of run
C9_Texts == (Texts \cup TextsU32) \ {<<>>}
C9_Counts == (Counts \cup CountsU32) \ {0}

\* C9: from any edit the builder can reach, insert(x) then delete(y) leaves
\* the edit delete(y) then insert(x) leaves, and the one order meets a u32 sum
\* that does not fit exactly when the other does.
C9_OrderIndependent ==
    Running =>
        \A x \in C9_Texts, y \in C9_Counts :
            /\ delete(insert(a, x), y) = insert(delete(a, y), x)
            /\ delete_overflows(insert(a, x), y) <=> delete_overflows(a, y)

\* the edit ends in a Delete that has no Insert before it: insert(x) has to
\* move in front of it
C9_Witness ==
    /\ Running
    /\ LastOp(a).t = "Delete" /\ PreLastOp(a).t = "Retain"
    /\ AddOverflows(LastOp(a).n, 1)
    /\ \E x \in C9_Texts :
          /\ LastOp(insert(a, x)).t = "Delete"
          /\ PreLastOp(insert(a, x)) = Insert(x)
          /\ delete(insert(a, x), 1) = insert(delete(a, 1), x)

\* C10: under its precondition neither walk ends in "first operation is too
\* short" or "second operation is too short".
C10_NoShortSide ==
    (Composed \/ Transformed) =>
        out.outcome \notin {"first_too_short", "second_too_short"}

\* a walk that splits operations on both sides and comes to its end
C10_Witness ==
    /\ Composed /\ Returned(out)
    /\ Len(a.ops) >= 2 /\ Len(b.ops) >= 2
    /\ a.ops[1].t = "Retain" /\ b.ops[1].t = "Retain"
    /\ a.ops[1].n # b.ops[1].n

\* ------------------------------------------------- the loops, step by step

\* a.compose(&b) up to its loop: the assertion, then the two first heads
EnterCompose ==
    /\ Running
    /\ walk' = [call |-> "compose",
                w |-> IF a.target_len # b.base_len
                      THEN [pc |-> "assert"]
                      ELSE compose_init(a, b)]
    /\ UNCHANGED <<a, b, appends, out>>

\* one iteration of the loop of compose
ComposeIterate ==
    /\ walk.call = "compose"
    /\ walk.w.pc = "loop"
    /\ walk' = [walk EXCEPT !.w = compose_step(a, b, walk.w)]
    /\ UNCHANGED <<a, b, appends, out>>

\* a.transform(&b) up to its loop: the assertion, then the two first heads
EnterTransform ==
    /\ Running
    /\ walk' = [call |-> "transform",
                w |-> IF a.base_len # b.base_len
                      THEN [pc |-> "assert"]
                      ELSE transform_init(a, b)]
    /\ UNCHANGED <<a, b, appends, out>>

\* one iteration of the loop of transform
TransformIterate ==
    /\ walk.call = "transform"
    /\ walk.w.pc = "loop"
    /\ walk' = [walk EXCEPT !.w = transform_step(a, b, walk.w)]
    /\ UNCHANGED <<a, b, appends, out>>

\* Document-sized runs that end in a call of compose or transform, followed
\* through its loop.
NextWalk ==
    \/ CallRetain({"a", "b"}, Counts)
    \/ CallDelete({"a", "b"}, Counts)
    \/ CallInsert({"a", "b"}, Texts)
    \/ EnterCompose
    \/ ComposeIterate
    \/ EnterTransform
    \/ TransformIterate

\* A loop that was entered runs on: nothing but its own break or panic stops
\* it.  The caller is free to stop building and to never call.
SpecWalk ==
    Init /\ [][NextWalk]_vars /\ WF_vars(ComposeIterate) /\ WF_vars(TransformIterate)

\* the loop is running
InLoop == walk.call # "none" /\ walk.w.pc = "loop"

\* operations a side still has to hand out, its head included
Pending(ops, n, head) == (Len(ops) - n) + (IF head.t = "None" THEN 0 ELSE 1)

\* characters a head stands for
HeadLoad(op) == IF op.t = "Insert" THEN CharCount(op.s) ELSE op.n

\* C11, each iteration: a side either moves on to its next operation, or keeps
\* its head, or has it replaced by a strictly smaller residual of the same
\* variant; and at least one side moves on.
C11_IterationAdvances ==
    (InLoop /\ walk'.call = walk.call /\ walk'.w.pc = "loop") =>
        LET w == walk.w
            v == walk'.w
            left == Pending(a.ops, w.n1, w.op1)
            right == Pending(b.ops, w.n2, w.op2)
            left_after == Pending(a.ops, v.n1, v.op1)
            right_after == Pending(b.ops, v.n2, v.op2)
        IN /\ left_after \in {left, left - 1}
           /\ right_after \in {right, right - 1}
           /\ left_after + right_after < left + right
           /\ (left_after = left /\ v.op1 # w.op1)
                 => (v.op1.t = w.op1.t /\ HeadLoad(v.op1) < HeadLoad(w.op1)
                     /\ HeadLoad(v.op1) > 0)
           /\ (right_after = right /\ v.op2 # w.op2)
                 => (v.op2.t = w.op2.t /\ HeadLoad(v.op2) < HeadLoad(w.op2)
                     /\ HeadLoad(v.op2) > 0)

\* both heads are None and the loop has broken
BothNone ==
    /\ walk.call # "none"
    /\ walk.w.pc = "done"
    /\ walk.w.op1 = None /\ walk.w.op2 = None

\* C11: the loops of compose and transform terminate.  Entered under its
\* precondition, a loop makes progress in every iteration and comes to the
\* state (None, None), where it breaks.
C11_Terminates ==
    /\ [][C11_IterationAdvances]_vars
    /\ InLoop ~> BothNone

\* a loop that left residuals on both sides has broken at (None, None)
C11_Witness ==
    /\ BothNone
    /\ walk.call = "transform"
    /\ Len(a.ops) >= 2 /\ Len(b.ops) >= 2
    /\ a.ops[1].t = "Retain" /\ b.ops[1].t = "Delete"
    /\ a.ops[1].n > b.ops[1].n
    /\ a.ops[2].t = "Insert"

====
